---------------------------- MODULE Spec2Model ----------------------------
(***************************************************************************)
(* The structured-failure type SErr of scheme.rs (src/serr.rs): its        *)
(* variants, Display (fmt), Error::description, the convenience            *)
(* constructors, the From adapters and the serr!/bail! macros, run inside  *)
(* a chain of operations that returns SResult to a top-level boundary.     *)
(***************************************************************************)
EXTENDS Integers, Sequences, FiniteSets, TLC

VARIABLES
    stack,    \* the call chain: one frame per operation in progress
    ret,      \* the SResult travelling from the callee to its caller
    expr,     \* the SExpr the operations work on, or Moved once given away
    op,       \* the operation that produced the failure in ret
    arg,      \* the input that operation was given
    raised,   \* history: the failures produced so far in this run, in order
    late,     \* history: steps executed in this run after a failure was produced
    out,      \* what the boundary got from Display, one entry per call
    cat,      \* what the boundary got from description(), or NoCat
    prev      \* the (variant, description) pair of the run before this one

vars == <<stack, ret, expr, op, arg, raised, late, out, cat, prev>>

-----------------------------------------------------------------------------
(* Bounds of the model *)

MaxNum == 10
MaxDepth == 2
MaxSteps == 2
MaxRenders == 2

-----------------------------------------------------------------------------
(* Values the payloads are drawn from *)

Strs == {"", "x", "car"}
\* usize payloads: one-digit numbers and the largest number of the model.
Nums == {0, 2, 3, 5, 9, MaxNum}

\* SExpr and Token come from the parser and the lexer; here they are values
\* that carry their own textual rendering.
SExprs == {[text |-> "(f 1)"], [text |-> "y"]}
Tokens == {[text |-> "("], [text |-> "quote"]}

SExprDisplay(x) == x.text
TokenDisplay(x) == x.text
SExprClone(x) == [text |-> x.text]

Moved == [text |-> "<moved>"]

\* std::io::Error: an OS error code, a bare kind, or a custom error with a
\* message of its own.
IoErrors ==
    {[repr |-> "Os", code |-> 2, msg |-> "No such file or directory"],
     [repr |-> "Os", code |-> 13, msg |-> "Permission denied"],
     [repr |-> "Simple", code |-> 0, msg |-> "unexpected end of file"],
     [repr |-> "Custom", code |-> 0, msg |-> "bad port"],
     [repr |-> "Custom", code |-> 0, msg |-> ""]}

\* std::env::VarError
VarErrors ==
    {[repr |-> "NotPresent", os |-> ""],
     [repr |-> "NotUnicode", os |-> "x"],
     [repr |-> "NotUnicode", os |-> ""]}

-----------------------------------------------------------------------------
(* Display of the payload types *)

Digit(d) == <<"0", "1", "2", "3", "4", "5", "6", "7", "8", "9">>[d + 1]

RECURSIVE usize_to_string(_)
usize_to_string(n) ==
    IF n < 10 THEN Digit(n)
    ELSE usize_to_string(n \div 10) \o Digit(n % 10)

io_Error_to_string(x) ==
    IF x.repr = "Os"
    THEN x.msg \o " (os error " \o usize_to_string(x.code) \o ")"
    ELSE x.msg

VarError_to_string(x) ==
    IF x.repr = "NotPresent"
    THEN "environment variable not found"
    ELSE "environment variable was not valid unicode: \"" \o x.os \o "\""

-----------------------------------------------------------------------------
(* enum SErr *)

SErr(tag, val) == [tag |-> tag, val |-> val]

NoErr == SErr("none", <<>>)

Variants ==
    {"Generic", "FoundNothing", "EnvNotFound", "DivisionByZero",
     "UnexpectedForm", "UnexpectedToken", "NotExpectedToken", "Cast",
     "UnboundVar", "NotAProcedure", "WrongArgCount", "IndexOutOfBounds",
     "TypeMismatch", "WrongPort", "IOErr", "VarErr"}

\* The payload types of each variant, in declaration order.
Sig(tag) ==
    CASE tag \in {"Generic", "UnboundVar"} -> <<"String">>
      [] tag \in {"FoundNothing", "EnvNotFound", "DivisionByZero"} -> <<>>
      [] tag \in {"UnexpectedForm", "NotAProcedure"} -> <<"SExpr">>
      [] tag = "UnexpectedToken" -> <<"Token">>
      [] tag = "NotExpectedToken" -> <<"Token", "Token">>
      [] tag \in {"Cast", "TypeMismatch"} -> <<"String", "SExpr">>
      [] tag \in {"WrongArgCount", "IndexOutOfBounds"} -> <<"usize", "usize">>
      [] tag = "WrongPort" -> <<"String", "String">>
      [] tag = "IOErr" -> <<"io::Error">>
      [] tag = "VarErr" -> <<"env::VarError">>

\* The values of one variant, over the payload values above.
ValuesOf(tag) ==
    CASE tag \in {"Generic", "UnboundVar"} -> {SErr(tag, <<s>>) : s \in Strs}
      [] tag \in {"FoundNothing", "EnvNotFound", "DivisionByZero"} -> {SErr(tag, <<>>)}
      [] tag \in {"UnexpectedForm", "NotAProcedure"} -> {SErr(tag, <<x>>) : x \in SExprs}
      [] tag = "UnexpectedToken" -> {SErr(tag, <<t>>) : t \in Tokens}
      [] tag = "NotExpectedToken" -> {SErr(tag, <<t, u>>) : t \in Tokens, u \in Tokens}
      [] tag \in {"Cast", "TypeMismatch"} ->
            {SErr(tag, <<s, x>>) : s \in Strs, x \in SExprs}
      [] tag \in {"WrongArgCount", "IndexOutOfBounds"} ->
            {SErr(tag, <<m, n>>) : m \in Nums, n \in Nums}
      [] tag = "WrongPort" -> {SErr(tag, <<s, t>>) : s \in Strs, t \in Strs}
      [] tag = "IOErr" -> {SErr(tag, <<x>>) : x \in IoErrors}
      [] tag = "VarErr" -> {SErr(tag, <<y>>) : y \in VarErrors}

\* Two failures are the same value: same variant, same payload.
SameErr(f, g) == f.tag = g.tag /\ f.val = g.val

-----------------------------------------------------------------------------
(* impl fmt::Display for SErr, one operator per arm *)

fmt_UnexpectedForm(x) == "Expression is in unexpected form: " \o SExprDisplay(x)

fmt_UnexpectedToken(x) == "Not expected this token: " \o TokenDisplay(x)

fmt_NotExpectedToken(x, y) ==
    "Expected one of " \o TokenDisplay(x) \o ", found " \o TokenDisplay(y)

\* The Cast arm with its payloads printed in declaration order.
fmt_CastSwapped(typ, x) == "Can't convert " \o typ \o " to " \o SExprDisplay(x)

fmt_Cast(typ, x) == "Can't convert " \o SExprDisplay(x) \o " to " \o typ

\* The UnboundVar arm as the Generic arm is written: the payload alone.
fmt_UnboundVarBare(x) == x

fmt_UnboundVar(x) == "Unbound variable: " \o x

fmt_NotAProcedure(x) == "Wrong type to apply, not a procedure: " \o SExprDisplay(x)

fmt_WrongArgCount(x, y) ==
    "Wrong arg count; expected: " \o usize_to_string(x)
        \o ", found: " \o usize_to_string(y)

fmt_IndexOutOfBounds(x, y) ==
    "Index out of bounds. Max size: " \o usize_to_string(x)
        \o ", requested: " \o usize_to_string(y)

fmt_TypeMismatch(x, y) == "Expected a " \o x \o ", found this: " \o SExprDisplay(y)

\* A string of this notation cannot hold the grave accent (U+0060) the
\* WrongPort message quotes the procedure with; Grave stands for it, and no
\* other text of the model contains its stand-in.
Grave == "^"

fmt_WrongPort(x, y) ==
    "Can't apply function " \o Grave \o x \o Grave \o " to a port type of " \o y

fmt(self) ==
    CASE self.tag = "Generic" -> self.val[1]
      [] self.tag = "FoundNothing" ->
            "Expected some expression or token, found nothing."
      [] self.tag = "EnvNotFound" ->
            "Environment not found. (Probably an unbound variable)"
      [] self.tag = "DivisionByZero" -> "Division by zero"
      [] self.tag = "UnexpectedForm" -> fmt_UnexpectedForm(self.val[1])
      [] self.tag = "UnexpectedToken" -> fmt_UnexpectedToken(self.val[1])
      [] self.tag = "NotExpectedToken" ->
            fmt_NotExpectedToken(self.val[1], self.val[2])
      [] self.tag = "Cast" -> fmt_Cast(self.val[1], self.val[2])
      [] self.tag = "UnboundVar" -> fmt_UnboundVar(self.val[1])
      [] self.tag = "NotAProcedure" -> fmt_NotAProcedure(self.val[1])
      [] self.tag = "WrongArgCount" -> fmt_WrongArgCount(self.val[1], self.val[2])
      [] self.tag = "IndexOutOfBounds" ->
            fmt_IndexOutOfBounds(self.val[1], self.val[2])
      [] self.tag = "TypeMismatch" -> fmt_TypeMismatch(self.val[1], self.val[2])
      [] self.tag = "WrongPort" -> fmt_WrongPort(self.val[1], self.val[2])
      [] self.tag = "IOErr" -> io_Error_to_string(self.val[1])
      [] self.tag = "VarErr" -> VarError_to_string(self.val[1])

-----------------------------------------------------------------------------
(* impl Error for SErr *)

\* NotExpectedToken with a description of its own.
description_NotExpectedTokenOwn == "Not expected token."

description_NotExpectedToken == "Unexpected token."

\* The arm the source keeps commented out: the wrapped error's own text.
description_IOErrWrapped(e) == e.msg

description_IOErr(e) == "IO error."

description(self) ==
    CASE self.tag = "Generic" -> "An error."
      [] self.tag = "FoundNothing" ->
            "Expected some expression or token, found nothing."
      [] self.tag = "EnvNotFound" ->
            "Environment not found. (Probably an unbound variable)"
      [] self.tag = "DivisionByZero" -> "Division by zero"
      [] self.tag = "UnexpectedForm" -> "Expression is in unexpected form."
      [] self.tag = "UnexpectedToken" -> "Unexpected token."
      [] self.tag = "NotExpectedToken" -> description_NotExpectedToken
      [] self.tag = "Cast" -> "Failed conversion."
      [] self.tag = "UnboundVar" -> "Unbound variable."
      [] self.tag = "NotAProcedure" -> "Not a procedure."
      [] self.tag = "WrongArgCount" -> "Wrong arg count."
      [] self.tag = "IndexOutOfBounds" -> "Index out of bounds."
      [] self.tag = "TypeMismatch" -> "Type mismatch."
      [] self.tag = "WrongPort" -> "Wrong type of port."
      [] self.tag = "IOErr" -> description_IOErr(self.val[1])
      [] self.tag = "VarErr" -> "Variable error."

-----------------------------------------------------------------------------
(* impl SErr: the convenience constructors *)

new_generic(s) == SErr("Generic", <<s>>)

new_unbound_var(s) == SErr("UnboundVar", <<s>>)

new_unexpected_form(x) == SErr("UnexpectedForm", <<SExprClone(x)>>)

\* new_id_not_found with the word spelled in full.
new_id_not_foundSpelled(s) == new_generic("Expected an identifier, found: " \o s)

new_id_not_found(s) == new_generic("Expected an identifer, found: " \o s)

new_expr_not_found(s) == new_generic("Expected an expression, found: " \o s)

-----------------------------------------------------------------------------
(* impl From<io::Error> for SErr, impl From<env::VarError> for SErr *)

\* From<io::Error> keeping the message only.
from_io_Error_lossy(error) == SErr("Generic", <<error.msg>>)

from_io_Error(error) == SErr("IOErr", <<error>>)

from_VarError(error) == SErr("VarErr", <<error>>)

-----------------------------------------------------------------------------
(* What the macros are given: typed argument expressions and string literals *)

Arg(ty, v) == [ty |-> ty, v |-> v]

\* ($thing).into(): an argument converted to the payload type that expects it.
into(a, target) ==
    CASE a.ty = "str" /\ target = "String" -> a.v
      [] a.ty = target -> a.v

to_string(a) == IF a.ty = "usize" THEN usize_to_string(a.v) ELSE a.v

\* A string literal, as the pieces format! sees in it: text, {} and {n}.
Lit(text) == [k |-> "lit", text |-> text, idx |-> 0]
Hole == [k |-> "next", text |-> "", idx |-> 0]
HoleAt(n) == [k |-> "pos", text |-> "", idx |-> n]

\* The literal's own characters, as a &str.
RECURSIVE literal_text(_)
literal_text(pieces) ==
    IF pieces = <<>> THEN ""
    ELSE LET p == Head(pieces)
         IN (CASE p.k = "lit" -> p.text
               [] p.k = "next" -> "{}"
               [] p.k = "pos" -> "{" \o usize_to_string(p.idx) \o "}")
            \o literal_text(Tail(pieces))

\* format!(pieces, args): {} takes the arguments in turn, {n} the n-th from 0.
RECURSIVE format_from(_, _, _)
format_from(pieces, args, next) ==
    IF pieces = <<>> THEN ""
    ELSE LET p == Head(pieces)
         IN CASE p.k = "lit" -> p.text \o format_from(Tail(pieces), args, next)
              [] p.k = "next" ->
                    to_string(args[next]) \o format_from(Tail(pieces), args, next + 1)
              [] p.k = "pos" ->
                    to_string(args[p.idx + 1]) \o format_from(Tail(pieces), args, next)

format(pieces, args) == format_from(pieces, args, 1)

\* A use of bail!: its first fragment (a string literal or an identifier),
\* whether => follows it, and the fragments after the separator.
LitHead(pieces) == [kind |-> "lit", name |-> "", pieces |-> pieces]
IdentHead(name) == [kind |-> "ident", name |-> name, pieces |-> <<>>]
Invocation(head, arrow, rest) == [head |-> head, arrow |-> arrow, rest |-> rest]

-----------------------------------------------------------------------------
(* macro_rules! serr, macro_rules! bail: the value each arm builds *)

serr(e) == SErr(e, <<>>)

\* The arms are tried in the order written; the first whose pattern the
\* invocation matches is the expansion.
bail_arm(inv) ==
    CASE ~inv.arrow /\ inv.rest = <<>> -> 1
      [] ~inv.arrow /\ inv.rest # <<>> -> 2
      [] inv.arrow /\ inv.head.kind = "ident" /\ Len(inv.rest) = 1 -> 3
      [] inv.arrow /\ inv.head.kind = "ident" /\ Len(inv.rest) > 1 -> 4

\* The payloads of a two-payload variant, taken in the opposite order.
bail_payloads_swapped(type, things) ==
    IF Len(things) = 2 /\ things[1].ty = things[2].ty
    THEN <<into(things[2], Sig(type)[1]), into(things[1], Sig(type)[2])>>
    ELSE [i \in 1 .. Len(things) |-> into(things[i], Sig(type)[i])]

bail_payloads(type, things) ==
    [i \in 1 .. Len(things) |-> into(things[i], Sig(type)[i])]

bail(inv) ==
    CASE bail_arm(inv) = 1 ->
            SErr("Generic", <<into(Arg("str", literal_text(inv.head.pieces)), "String")>>)
      [] bail_arm(inv) = 2 ->
            SErr("Generic", <<format(inv.head.pieces, inv.rest)>>)
      [] bail_arm(inv) = 3 ->
            SErr(inv.head.name, <<into(inv.rest[1], Sig(inv.head.name)[1])>>)
      [] bail_arm(inv) = 4 ->
            SErr(inv.head.name, bail_payloads(inv.head.name, inv.rest))

\* The uses of bail! the operations make, by the types of their arguments.
Messages == {<<Lit(s)>> : s \in Strs} \cup {<<Lit("bad "), HoleAt(0)>>}
Templates1 == {<<Lit("bad "), HoleAt(0)>>, <<Hole, Lit("!")>>}
Templates2 == {<<Lit("no "), Hole, Lit(" in "), Hole>>, <<HoleAt(1), Lit("/"), HoleAt(0)>>}

BailMessage == {Invocation(LitHead(t), FALSE, <<>>) : t \in Messages}
BailFormatNum ==
    {Invocation(LitHead(t), FALSE, <<Arg("usize", n)>>) : t \in Templates1, n \in Nums}
BailFormatStr ==
    {Invocation(LitHead(t), FALSE, <<Arg("str", s)>>) : t \in Templates1, s \in Strs}
BailFormatStrNum ==
    {Invocation(LitHead(t), FALSE, <<Arg("str", s), Arg("usize", n)>>) :
        t \in Templates2, s \in Strs, n \in {0, MaxNum}}
BailString ==
    {Invocation(IdentHead(v), TRUE, <<Arg("str", s)>>) :
        v \in {"Generic", "UnboundVar"}, s \in Strs}
BailToken ==
    {Invocation(IdentHead("UnexpectedToken"), TRUE, <<Arg("Token", t)>>) : t \in Tokens}
BailTokens ==
    {Invocation(IdentHead("NotExpectedToken"), TRUE, <<Arg("Token", t), Arg("Token", u)>>) :
        t \in Tokens, u \in Tokens}
BailNums ==
    {Invocation(IdentHead(v), TRUE, <<Arg("usize", m), Arg("usize", n)>>) :
        v \in {"WrongArgCount", "IndexOutOfBounds"}, m \in Nums, n \in Nums}
BailStrings ==
    {Invocation(IdentHead("WrongPort"), TRUE, <<Arg("str", s), Arg("str", t)>>) :
        s \in Strs, t \in Strs}
BailSExpr(x) ==
    {Invocation(IdentHead(v), TRUE, <<Arg("SExpr", x)>>) :
        v \in {"UnexpectedForm", "NotAProcedure"}}
BailStringSExpr(x) ==
    {Invocation(IdentHead(v), TRUE, <<Arg("str", s), Arg("SExpr", x)>>) :
        v \in {"Cast", "TypeMismatch"}, s \in Strs}

\* Whether the invocation gives an SExpr away by value.
MovesSExpr(inv) == \E i \in 1 .. Len(inv.rest) : inv.rest[i].ty = "SExpr"

-----------------------------------------------------------------------------
(* The chain of operations: each returns SResult<T> to its caller *)

Frame(pc, st) == [pc |-> pc, st |-> st]

NoRet == [kind |-> "none", err |-> NoErr]
Ok == [kind |-> "ok", err |-> NoErr]
Err(f) == [kind |-> "err", err |-> f]

NoCat == "<none>"
NoPrev == [tag |-> "none", text |-> NoCat]

Top == stack[Len(stack)]
Pop(stk) == SubSeq(stk, 1, Len(stk) - 1)
SetTop(stk, fr) == [stk EXCEPT ![Len(stk)] = fr]

Running == stack # <<>> /\ Top.st = "running"
Awaiting == stack # <<>> /\ Top.st = "awaiting"
AtBoundary == stack = <<>> /\ ret.kind # "none"

\* A failure can be detected at any step of the body of an operation.
Detecting == Running /\ Top.pc < MaxSteps

Init ==
    /\ stack = <<>>
    /\ ret = NoRet
    /\ expr \in SExprs
    /\ op = "none"
    /\ arg = <<>>
    /\ raised = <<>>
    /\ late = 0
    /\ out = <<>>
    /\ cat = NoCat
    /\ prev = NoPrev

\* The boundary starts the outermost operation.
Start ==
    /\ stack = <<>>
    /\ ret.kind = "none"
    /\ stack' = <<Frame(0, "running")>>
    /\ UNCHANGED <<ret, expr, op, arg, raised, late, out, cat, prev>>

\* One step of an operation's body that detects nothing.
Step ==
    /\ Detecting
    /\ stack' = SetTop(stack, Frame(Top.pc + 1, "running"))
    /\ late' = IF raised # <<>> THEN late + 1 ELSE late
    /\ UNCHANGED <<ret, expr, op, arg, raised, out, cat, prev>>

\* One step that calls another operation and waits for its SResult.
Call ==
    /\ Detecting
    /\ Len(stack) < MaxDepth
    /\ stack' = Append(SetTop(stack, Frame(Top.pc + 1, "awaiting")), Frame(0, "running"))
    /\ late' = IF raised # <<>> THEN late + 1 ELSE late
    /\ UNCHANGED <<ret, expr, op, arg, raised, out, cat, prev>>

\* The end of the body: Ok(..).
ReturnOk ==
    /\ Running
    /\ Top.pc = MaxSteps
    /\ stack' = Pop(stack)
    /\ ret' = Ok
    /\ UNCHANGED <<expr, op, arg, raised, late, out, cat, prev>>

\* The callee returned Ok: the caller goes on.
Resume ==
    /\ Awaiting
    /\ ret.kind = "ok"
    /\ stack' = SetTop(stack, Frame(Top.pc, "running"))
    /\ ret' = NoRet
    /\ UNCHANGED <<expr, op, arg, raised, late, out, cat, prev>>

\* The callee returned Err(e): the caller's ? returns it as it is.
Forward ==
    /\ Awaiting
    /\ ret.kind = "err"
    /\ stack' = Pop(stack)
    /\ UNCHANGED <<ret, expr, op, arg, raised, late, out, cat, prev>>

\* Err(f) built and dropped: the operation goes on.
return_Err_missing(f) ==
    /\ stack' = stack
    /\ ret' = ret
    /\ raised' = Append(raised, f)

\* return Err(f): the operation ends here with f as its result.
return_Err(f) ==
    /\ stack' = Pop(stack)
    /\ ret' = Err(f)
    /\ raised' = Append(raised, f)

\* serr!(e)
Serr ==
    /\ Detecting
    /\ \E e \in {"FoundNothing", "EnvNotFound", "DivisionByZero"} :
          /\ return_Err(serr(e))
          /\ op' = "serr"
          /\ arg' = e
    /\ UNCHANGED <<expr, late, out, cat, prev>>

BailWith(inv) ==
    /\ return_Err(bail(inv))
    /\ op' = "bail"
    /\ arg' = inv
    /\ expr' = IF MovesSExpr(inv) THEN Moved ELSE expr

\* bail!(..)
Bail ==
    /\ Detecting
    /\ \/ \E inv \in BailMessage : BailWith(inv)
       \/ \E inv \in BailFormatNum : BailWith(inv)
       \/ \E inv \in BailFormatStr : BailWith(inv)
       \/ \E inv \in BailFormatStrNum : BailWith(inv)
       \/ \E inv \in BailString : BailWith(inv)
       \/ \E inv \in BailToken : BailWith(inv)
       \/ \E inv \in BailTokens : BailWith(inv)
       \/ \E inv \in BailNums : BailWith(inv)
       \/ \E inv \in BailStrings : BailWith(inv)
       \/ \E inv \in BailSExpr(expr) : BailWith(inv)
       \/ \E inv \in BailStringSExpr(expr) : BailWith(inv)
    /\ UNCHANGED <<late, out, cat, prev>>

\* return Err(SErr::new_generic(s)), and so on for the other constructors
\* that take a &str.
Construct ==
    /\ Detecting
    /\ \E s \in Strs :
          \/ return_Err(new_generic(s)) /\ op' = "new_generic" /\ arg' = s
          \/ return_Err(new_unbound_var(s)) /\ op' = "new_unbound_var" /\ arg' = s
          \/ return_Err(new_id_not_found(s)) /\ op' = "new_id_not_found" /\ arg' = s
          \/ return_Err(new_expr_not_found(s)) /\ op' = "new_expr_not_found" /\ arg' = s
    /\ UNCHANGED <<expr, late, out, cat, prev>>

\* What is left in the caller's variable had new_unexpected_form taken x by
\* value.
after_borrow_taken(x) == Moved

\* What is left in the caller's variable after new_unexpected_form(&x): x.
after_borrow(x) == x

\* return Err(SErr::new_unexpected_form(&expr))
ConstructUnexpectedForm ==
    /\ Detecting
    /\ return_Err(new_unexpected_form(expr))
    /\ op' = "new_unexpected_form"
    /\ arg' = expr
    /\ expr' = after_borrow(expr)
    /\ UNCHANGED <<late, out, cat, prev>>

\* An io::Result or a Result<_, VarError> met by ?: From::from, then return.
Adopt ==
    /\ Detecting
    /\ \/ \E x \in IoErrors :
             return_Err(from_io_Error(x)) /\ op' = "from_io_Error" /\ arg' = x
       \/ \E y \in VarErrors :
             return_Err(from_VarError(y)) /\ op' = "from_VarError" /\ arg' = y
    /\ UNCHANGED <<expr, late, out, cat, prev>>

\* The boundary prints the failure it got: write!(f, "{}", &output).
Display ==
    /\ AtBoundary
    /\ ret.kind = "err"
    /\ Len(out) < MaxRenders
    /\ out' = Append(out, fmt(ret.err))
    /\ UNCHANGED <<stack, ret, expr, op, arg, raised, late, cat, prev>>

\* The boundary asks for the failure's description().
Describe ==
    /\ AtBoundary
    /\ ret.kind = "err"
    /\ cat = NoCat
    /\ cat' = description(ret.err)
    /\ UNCHANGED <<stack, ret, expr, op, arg, raised, late, out, prev>>

\* The boundary is done with the result and takes the next expression.
Reset ==
    /\ AtBoundary
    /\ ret' = NoRet
    /\ expr' \in SExprs
    /\ op' = "none"
    /\ arg' = <<>>
    /\ raised' = <<>>
    /\ late' = 0
    /\ out' = <<>>
    /\ cat' = NoCat
    /\ prev' = IF cat # NoCat THEN [tag |-> ret.err.tag, text |-> cat] ELSE prev
    /\ UNCHANGED stack

Next ==
    \/ Start
    \/ Step
    \/ Call
    \/ ReturnOk
    \/ Resume
    \/ Forward
    \/ Serr
    \/ Bail
    \/ Construct
    \/ ConstructUnexpectedForm
    \/ Adopt
    \/ Display
    \/ Describe
    \/ Reset

Spec == Init /\ [][Next]_vars

-----------------------------------------------------------------------------
(* The failure the boundary holds, and what it was told about it *)

Failed == ret.kind = "err"
Delivered == AtBoundary /\ Failed
TokenPair == {"UnexpectedToken", "NotExpectedToken"}

\* C1: Display is total over the 16 variants and every string it returns is
\* the documented text of the variant, with the payloads in the documented
\* places (Cast prints its second payload, the expression, first).
C1_DisplayText ==
    \A i \in 1 .. Len(out) :
        LET f == ret.err
            r == out[i]
        IN /\ Failed
           /\ f.tag \in Variants
           /\ f.tag = "Generic" => r = f.val[1]
           /\ f.tag = "FoundNothing" =>
                 r = "Expected some expression or token, found nothing."
           /\ f.tag = "EnvNotFound" =>
                 r = "Environment not found. (Probably an unbound variable)"
           /\ f.tag = "DivisionByZero" => r = "Division by zero"
           /\ f.tag = "UnexpectedForm" =>
                 r = "Expression is in unexpected form: " \o SExprDisplay(f.val[1])
           /\ f.tag = "UnexpectedToken" =>
                 r = "Not expected this token: " \o TokenDisplay(f.val[1])
           /\ f.tag = "NotExpectedToken" =>
                 r = "Expected one of " \o TokenDisplay(f.val[1])
                        \o ", found " \o TokenDisplay(f.val[2])
           /\ f.tag = "Cast" =>
                 r = "Can't convert " \o SExprDisplay(f.val[2]) \o " to " \o f.val[1]
           /\ f.tag = "UnboundVar" => r = "Unbound variable: " \o f.val[1]
           /\ f.tag = "NotAProcedure" =>
                 r = "Wrong type to apply, not a procedure: " \o SExprDisplay(f.val[1])
           /\ f.tag = "WrongArgCount" =>
                 /\ r = "Wrong arg count; expected: " \o usize_to_string(f.val[1])
                          \o ", found: " \o usize_to_string(f.val[2])
                 /\ f.val = <<2, 3>> => r = "Wrong arg count; expected: 2, found: 3"
                 /\ f.val = <<10, 0>> => r = "Wrong arg count; expected: 10, found: 0"
           /\ f.tag = "IndexOutOfBounds" =>
                 /\ r = "Index out of bounds. Max size: " \o usize_to_string(f.val[1])
                          \o ", requested: " \o usize_to_string(f.val[2])
                 /\ f.val = <<9, 10>> => r = "Index out of bounds. Max size: 9, requested: 10"
           /\ f.tag = "TypeMismatch" =>
                 r = "Expected a " \o f.val[1] \o ", found this: " \o SExprDisplay(f.val[2])
           /\ f.tag = "WrongPort" =>
                 r = "Can't apply function " \o Grave \o f.val[1] \o Grave
                        \o " to a port type of " \o f.val[2]
           /\ f.tag = "IOErr" => r = io_Error_to_string(f.val[1])
           /\ f.tag = "VarErr" => r = VarError_to_string(f.val[1])

C1_Witness ==
    /\ Delivered
    /\ out # <<>>
    /\ ret.err.tag = "Cast"
    /\ ret.err.val[1] = "car"
    /\ out[1] = "Can't convert (f 1) to car"

\* C2, as claimed: every string Display returns is non-empty, and Display
\* returns the same string each time it is asked about the same failure.
C2_NonEmptyAlways ==
    \A i \in 1 .. Len(out) : out[i] # "" /\ out[i] = out[1]

\* The failures whose text is all payload: a Generic with an empty message, an
\* IOErr around an error whose own message is empty.
EmptyMessage(f) ==
    \/ f.tag = "Generic" /\ f.val[1] = ""
    \/ f.tag = "IOErr" /\ f.val[1].repr # "Os" /\ f.val[1].msg = ""

\* C2, amended: Display returns the same string each time it is asked about
\* the same failure, and that string is empty exactly for a Generic whose
\* message is empty and for an IOErr whose wrapped error has an empty message
\* of its own; for every other failure it is non-empty.
C2_NonEmptyUnlessVerbatim ==
    \A i \in 1 .. Len(out) :
        /\ out[i] = out[1]
        /\ out[i] = "" <=> EmptyMessage(ret.err)

C2_Witness ==
    /\ Delivered
    /\ Len(out) = MaxRenders
    /\ ret.err.tag = "UnboundVar"
    /\ ret.err.val[1] = ""
    /\ out[1] # ""

\* C3: description() is total and its result depends on the variant alone: it
\* is the string description() gives every other value of the same variant,
\* and the string the boundary got for the same variant in the run before.
C3_DescriptionByVariant ==
    Delivered =>
        /\ \A g \in ValuesOf(ret.err.tag) : description(g) # NoCat
        /\ cat # NoCat =>
              /\ \A g \in ValuesOf(ret.err.tag) : description(g) = cat
              /\ prev.tag = ret.err.tag => prev.text = cat

C3_Witness ==
    /\ Delivered
    /\ cat # NoCat
    /\ ret.err.tag = "IOErr"
    /\ prev.tag = "IOErr"
    /\ \E g \in ValuesOf("IOErr") : g.val # ret.err.val

\* C4: From<io::Error> gives IOErr around the error it was given and
\* From<env::VarError> gives VarErr around the error it was given, unchanged,
\* and Display of either is the wrapped error's own message.
C4_AdaptersKeepMessage ==
    /\ op = "from_io_Error" =>
          /\ Failed
          /\ ret.err.tag = "IOErr"
          /\ ret.err.val = <<arg>>
          /\ \A i \in 1 .. Len(out) : out[i] = io_Error_to_string(arg)
    /\ op = "from_VarError" =>
          /\ Failed
          /\ ret.err.tag = "VarErr"
          /\ ret.err.val = <<arg>>
          /\ \A i \in 1 .. Len(out) : out[i] = VarError_to_string(arg)

C4_Witness ==
    /\ Delivered
    /\ op = "from_io_Error"
    /\ arg.repr = "Os"
    /\ arg.code = 2
    /\ out # <<>>
    /\ out[1] = "No such file or directory (os error 2)"

\* C5: once serr! or bail! (or any return Err) has produced a failure, the
\* operation it was in is over and runs no further step; its callers only hand
\* the failure on, so no second failure is produced and the result on its way
\* to the boundary, and at it, is the first failure.
C5_FirstFailureDelivered ==
    /\ late = 0
    /\ Len(raised) <= 1
    /\ raised # <<>> =>
          /\ Failed
          /\ SameErr(ret.err, raised[1])
          /\ ~Running

C5_Witness ==
    /\ Len(stack) = 1
    /\ Awaiting
    /\ Failed
    /\ op = "bail"
    /\ raised = <<ret.err>>

\* C6: the failure serr! and bail! return is the one manual construction
\* gives: serr!(V) is V; bail!(msg) is Generic(msg); bail!(template, args) is
\* Generic of the formatted text ("bad {0}" with 5 is "bad 5"); bail!(V => p1,
\* .., pn) is V(p1, .., pn), payloads in the order given; Display agrees.
C6_HelpersAsManual ==
    /\ op = "serr" =>
          /\ Failed
          /\ SameErr(ret.err, SErr(arg, <<>>))
    /\ op = "bail" =>
          LET head == arg.head
              rest == arg.rest
              f == ret.err
          IN /\ Failed
             /\ ~arg.arrow =>
                   /\ f.tag = "Generic"
                   /\ \A i \in 1 .. Len(out) : out[i] = f.val[1]
             /\ (~arg.arrow /\ rest = <<>> /\ Len(head.pieces) = 1) =>
                   f.val[1] = head.pieces[1].text
             /\ (~arg.arrow /\ rest = <<>> /\ head.pieces = <<Lit("bad "), HoleAt(0)>>) =>
                   f.val[1] = "bad {0}"
             /\ (~arg.arrow /\ Len(rest) = 1 /\ head.pieces = <<Lit("bad "), HoleAt(0)>>) =>
                   /\ f.val[1] = "bad " \o to_string(rest[1])
                   /\ (rest[1].ty = "usize" /\ rest[1].v = 5) => f.val[1] = "bad 5"
             /\ (~arg.arrow /\ Len(rest) = 1 /\ head.pieces = <<Hole, Lit("!")>>) =>
                   f.val[1] = to_string(rest[1]) \o "!"
             /\ (~arg.arrow /\ Len(rest) = 2 /\ head.pieces[1] = Lit("no ")) =>
                   f.val[1] = "no " \o rest[1].v \o " in " \o usize_to_string(rest[2].v)
             /\ (~arg.arrow /\ Len(rest) = 2 /\ head.pieces[1] = HoleAt(1)) =>
                   f.val[1] = usize_to_string(rest[2].v) \o "/" \o rest[1].v
             /\ arg.arrow =>
                   /\ f.tag = head.name
                   /\ Len(f.val) = Len(rest)
                   /\ \A i \in 1 .. Len(rest) : f.val[i] = rest[i].v
                   /\ \A i \in 1 .. Len(out) :
                         out[i] = fmt(SErr(head.name, [j \in 1 .. Len(rest) |-> rest[j].v]))

C6_Witness ==
    /\ Delivered
    /\ op = "bail"
    /\ ~arg.arrow
    /\ arg.head.pieces = <<Lit("bad "), HoleAt(0)>>
    /\ Len(arg.rest) = 1
    /\ arg.rest[1].ty = "usize"
    /\ arg.rest[1].v = 5
    /\ out = <<"bad 5">>

\* C8: new_generic(s) is Generic(s); new_unbound_var(s) is UnboundVar(s) and
\* prints "Unbound variable: s"; new_id_not_found(s) is Generic("Expected an
\* identifer, found: s"); new_expr_not_found(s) is Generic("Expected an
\* expression, found: s").
C8_Constructors ==
    /\ op = "new_generic" =>
          Failed /\ ret.err.tag = "Generic" /\ ret.err.val = <<arg>>
    /\ op = "new_unbound_var" =>
          /\ Failed
          /\ ret.err.tag = "UnboundVar"
          /\ ret.err.val = <<arg>>
          /\ \A i \in 1 .. Len(out) :
                /\ out[i] = "Unbound variable: " \o arg
                /\ arg = "x" => out[i] = "Unbound variable: x"
    /\ op = "new_id_not_found" =>
          /\ Failed
          /\ ret.err.tag = "Generic"
          /\ ret.err.val = <<"Expected an identifer, found: " \o arg>>
    /\ op = "new_expr_not_found" =>
          /\ Failed
          /\ ret.err.tag = "Generic"
          /\ ret.err.val = <<"Expected an expression, found: " \o arg>>

C8_Witness ==
    /\ Delivered
    /\ op = "new_id_not_found"
    /\ arg = "x"
    /\ out = <<"Expected an identifer, found: x">>

\* C9: new_unexpected_form(&x) is UnexpectedForm around a copy equal to x, and
\* x is still in the caller's hands, unchanged.
C9_UnexpectedFormKeepsOriginal ==
    op = "new_unexpected_form" =>
        /\ Failed
        /\ ret.err.tag = "UnexpectedForm"
        /\ ret.err.val = <<arg>>
        /\ expr = arg
        /\ expr # Moved

C9_Witness ==
    /\ Delivered
    /\ op = "new_unexpected_form"
    /\ expr = [text |-> "(f 1)"]
    /\ out = <<"Expression is in unexpected form: (f 1)">>

\* C10: UnexpectedToken and NotExpectedToken both have the description
\* "Unexpected token.", and no other two variants share a description: the
\* string description() returned is returned for no value of another variant,
\* and was not returned for another variant in the run before, but for that pair.
C10_OneSharedDescription ==
    (Delivered /\ cat # NoCat) =>
        /\ ret.err.tag \in TokenPair => cat = "Unexpected token."
        /\ \A v \in Variants \ {ret.err.tag} :
              \A g \in ValuesOf(v) :
                  description(g) = cat => {v, ret.err.tag} = TokenPair
        /\ (prev.tag # ret.err.tag /\ prev.text = cat) =>
              {prev.tag, ret.err.tag} = TokenPair

C10_Witness ==
    /\ Delivered
    /\ cat = "Unexpected token."
    /\ ret.err.tag = "NotExpectedToken"
    /\ prev.tag = "UnexpectedToken"
    /\ prev.text = cat

=============================================================================
